---- MODULE Spec2Model ----
(***************************************************************************)
(* A model of the Streamer Mode extension (src/src/extension.ts): the      *)
(* pattern-driven masking engine (regex matching, span resolution, scan,   *)
(* redaction), the temporary-reveal registry with its expiry timers, the   *)
(* switch of Streamer Mode with its async handlers, and the masking of the *)
(* window title.                                                           *)
(*                                                                         *)
(* Texts are sequences of one-character strings; offsets are 0-based as in *)
(* the source, so the character at offset i of text t is t[i + 1].         *)
(***************************************************************************)
EXTENDS Integers, Sequences, FiniteSets, Bags, TLC

(***************************************************************************)
(* Bounds of the model.                                                    *)
(***************************************************************************)
MaxLen == 3
MaxPatterns == 2
MaxNow == 2
MaxReveals == 2
MaxSource == 5
MaxPending == 2

(* The characters documents are written in.                                *)
Chars == {"a", "A", "="}


(***************************************************************************)
(* Small helpers.                                                          *)
(***************************************************************************)
Max2(x, y) == IF x >= y THEN x ELSE y

Min2(x, y) == IF x <= y THEN x ELSE y

SetMax(S) == CHOOSE x \in S : \A y \in S : y <= x

(* text.slice(from, to) of JavaScript for 0 <= from, to: empty when to <= from. *)
Slice(text, from, to) ==
  LET t == Min2(to, Len(text))
  IN IF from >= t THEN << >> ELSE SubSeq(text, from + 1, t)

(* hay.indexOf(needle): the first offset where needle occurs, -1 if none.  *)
FirstOf(hits) == IF hits = {} THEN -1 ELSE CHOOSE i \in hits : \A j \in hits : i <= j

IndexOf(hay, needle) ==
  FirstOf({i \in 0..(Len(hay) - Len(needle)) :
             \A k \in 1..Len(needle) : hay[i + k] = needle[k]})

(***************************************************************************)
(* Regular expressions.  The regex engine is the JavaScript runtime's, not *)
(* code of the extension; it is modelled for one family of sources:        *)
(*    pre [cls]{min,} post              cap = "none"                       *)
(*    pre ([cls]{min,}) post            cap = "index"                      *)
(*    pre (?<value>[cls]{min,}) post    cap = "named"                      *)
(* each optionally followed by  |alt  (a literal second alternative) and   *)
(* optionally preceded by an inline flag group (?letters), whose letters   *)
(* are the field inline (empty: no such group).  pre, post and alt are     *)
(* literal texts, the class repetition is greedy and backtracks for post.  *)
(* ok = FALSE is a body the engine rejects, such as an unbalanced          *)
(* parenthesis.                                                            *)
(***************************************************************************)
Rx(inline, ok, pre, cls, min, post, cap, hasAlt, alt) ==
  [inline |-> inline, ok |-> ok, pre |-> pre, cls |-> cls, min |-> min,
   post |-> post, cap |-> cap, hasAlt |-> hasAlt, alt |-> alt]

(* Case folding of the engine's flag i over the model's characters.        *)
Fold(c) == IF c = "A" THEN "a" ELSE c

SameChar(c, d, ignoreCase) == IF ignoreCase THEN Fold(c) = Fold(d) ELSE c = d

InClass(c, cls, ignoreCase) == \E d \in cls : SameChar(c, d, ignoreCase)

NoCapture == [def |-> FALSE, s |-> 0, e |-> 0]

NoMatch == [found |-> FALSE, index |-> 0, end |-> 0, g |-> NoCapture]

(* The literal lit occurs in text at offset i.                             *)
LiteralAt(lit, text, i, ignoreCase) ==
  /\ i + Len(lit) <= Len(text)
  /\ \A k \in 1..Len(lit) : SameChar(text[i + k], lit[k], ignoreCase)

(* The length of the longest run of characters of cls starting at offset i. *)
RunLen(text, cls, i, ignoreCase) ==
  SetMax({n \in 0..(Len(text) - i) :
            \A k \in 1..n : InClass(text[i + k], cls, ignoreCase)})

(* The first alternative at offset i: greedy, longest repetition first;    *)
(* ns are the repetition counts after which post matches.                  *)
MainAmong(ns, src, i) ==
  IF ns = {} THEN NoMatch
  ELSE [found |-> TRUE, index |-> i,
        end |-> i + Len(src.pre) + SetMax(ns) + Len(src.post),
        g |-> IF src.cap = "none" THEN NoCapture
              ELSE [def |-> TRUE, s |-> i + Len(src.pre),
                    e |-> i + Len(src.pre) + SetMax(ns)]]

MainAt(text, src, i, ignoreCase) ==
  IF ~LiteralAt(src.pre, text, i, ignoreCase) THEN NoMatch
  ELSE MainAmong({n \in src.min..RunLen(text, src.cls, i + Len(src.pre), ignoreCase) :
                    LiteralAt(src.post, text, i + Len(src.pre) + n, ignoreCase)},
                 src, i)

(* The match at offset i: the first alternative, else the literal second   *)
(* one, in which the capture group does not participate.                   *)
MatchOr(main, text, src, i, ignoreCase) ==
  IF main.found THEN main
  ELSE IF src.hasAlt /\ LiteralAt(src.alt, text, i, ignoreCase)
       THEN [found |-> TRUE, index |-> i, end |-> i + Len(src.alt), g |-> NoCapture]
       ELSE NoMatch

MatchAt(text, src, i, ignoreCase) ==
  MatchOr(MainAt(text, src, i, ignoreCase), text, src, i, ignoreCase)

(* re.exec(text) of a global regex whose lastIndex is lastIndex: the       *)
(* leftmost match at or after lastIndex (with flag y: at lastIndex         *)
(* itself).  The result carries what the RegExpExecArray does: index,      *)
(* m[0] (full), m[1] (g1, when the group participated), groups (named),    *)
(* and indices when the regex has flag d.  The regex's next lastIndex is   *)
(* the end of the match.                                                   *)
ExecResult(raw, re, text) ==
  [found |-> TRUE,
   index |-> raw.index,
   end |-> raw.end,
   full |-> Slice(text, raw.index, raw.end),
   ncap |-> IF re.src.cap = "none" THEN 0 ELSE 1,
   named |-> re.src.cap = "named",
   g1 |-> [def |-> raw.g.def, s |-> raw.g.s, e |-> raw.g.e,
           text |-> IF raw.g.def THEN Slice(text, raw.g.s, raw.g.e) ELSE << >>],
   hasIndices |-> "d" \in re.flags]

ExecAmong(hits, re, text, lastIndex) ==
  IF lastIndex > Len(text) \/ hits = {} THEN [found |-> FALSE]
  ELSE ExecResult(MatchAt(text, re.src, CHOOSE h \in hits : \A h2 \in hits : h <= h2,
                          "i" \in re.flags),
                  re, text)

RegExpExec(re, text, lastIndex) ==
  ExecAmong({i \in (IF "y" \in re.flags THEN {lastIndex} ELSE lastIndex..Len(text)) :
               i <= Len(text) /\ MatchAt(text, re.src, i, "i" \in re.flags).found},
            re, text, lastIndex)

(***************************************************************************)
(* Group selectors: the optional field group of a Pattern, a number or a   *)
(* name.  kind = "none" is an absent (undefined or null) group.            *)
(***************************************************************************)
NoGroup == [kind |-> "none", num |-> 0, name |-> ""]

NumGroup(n) == [kind |-> "num", num |-> n, name |-> ""]

NameGroup(s) == [kind |-> "name", num |-> 0, name |-> s]

Pattern(name, regex, group) == [name |-> name, regex |-> regex, group |-> group]

Has(seq, c) == \E k \in 1..Len(seq) : seq[k] = c

AppendNew(seq, c) == IF Has(seq, c) THEN seq ELSE Append(seq, c)

(* Removes the duplicates of a sequence, keeping first occurrences.        *)
RECURSIVE Dedupe(_)
Dedupe(seq) ==
  IF seq = << >> THEN << >>
  ELSE AppendNew(Dedupe(SubSeq(seq, 1, Len(seq) - 1)), seq[Len(seq)])

(* The loop of parseRegex over the letters of an inline flag group: the    *)
(* two statements of its body for the letter ch.                           *)
CollectSecond(ch, collected) ==
  IF ch = "i" /\ ~Has(collected, "i") THEN Append(collected, "i") ELSE collected

CollectFirst(ch, collected) ==
  IF ch \in {"i", "m", "s", "u", "y"} /\ ~Has(collected, ch)
  THEN Append(collected, ch) ELSE collected

RECURSIVE CollectFlags(_, _)
CollectFlags(letters, collected) ==
  IF letters = << >> THEN collected
  ELSE CollectFlags(Tail(letters),
                    CollectSecond(Head(letters), CollectFirst(Head(letters), collected)))

(***************************************************************************)
(* parseRegex on the characters of a source.  ":" stands for the           *)
(* characters that are no letters, "x" for the letters that are no flags.  *)
(***************************************************************************)
SourceChars == {"(", "?", ")", ":", "i", "y", "x", " "}

(* The letters /^[a-zA-Z]+$/ accepts, those the model writes.              *)
Letters == {"a", "A", "d", "g", "i", "m", "s", "u", "x", "y"}

RECURSIVE TrimStart(_)
TrimStart(s) == IF s # << >> /\ Head(s) = " " THEN TrimStart(Tail(s)) ELSE s

RECURSIVE TrimEnd(_)
TrimEnd(s) ==
  IF s # << >> /\ s[Len(s)] = " " THEN TrimEnd(SubSeq(s, 1, Len(s) - 1)) ELSE s

Trim(s) == TrimEnd(TrimStart(s))

StartsWith(s, prefix) == Len(s) >= Len(prefix) /\ SubSeq(s, 1, Len(prefix)) = prefix

(* LettersOnly accepting every text that is not empty: the faulty variant  *)
(* property C15 tells from LettersOnly.                                    *)
LettersOnlyOrNot(s) == s # << >>

LettersOnly(s) == s # << >> /\ \A k \in 1..Len(s) : s[k] \in Letters

(* The group from "(?" to the first ")" at offset close: stripped, and its *)
(* letters collected, when it holds letters only.                          *)
StripFlagGroup(pattern, close) ==
  IF close > 2 /\ LettersOnly(Slice(pattern, 2, close))
  THEN [pattern |-> Slice(pattern, close + 1, Len(pattern)),
        collected |-> CollectFlags(Slice(pattern, 2, close), << >>)]
  ELSE [pattern |-> pattern, collected |-> << >>]

ParseTrimmed(pattern) ==
  IF StartsWith(pattern, <<"(", "?">>)
  THEN StripFlagGroup(pattern, IndexOf(pattern, <<")">>))
  ELSE [pattern |-> pattern, collected |-> << >>]

ParsedOf(r) == [source |-> r.pattern, flags |-> Dedupe(<<"g", "d">> \o r.collected)]

parseRegexText(input) == ParsedOf(ParseTrimmed(Trim(input)))

(* The text of the inline flag group of a source of the regex family.      *)
InlineGroup(letters) ==
  IF letters = << >> THEN << >> ELSE <<"(", "?">> \o letters \o <<")">>

(* parseRegex on a source of the regex family: strips a leading inline     *)
(* flag group and turns its letters into RegExp flags, after the base      *)
(* flags g and d.                                                          *)
parseRegex(input) ==
  [source |-> [input EXCEPT !.inline = << >>],
   flags |-> parseRegexText(InlineGroup(input.inline)).flags]

(* new RegExp(source, flags): throws on a source the engine rejects and on *)
(* flag d where the runtime does not know it.                              *)
NewRegExp(source, flags, dSupported) ==
  [threw |-> ~source.ok \/ (Has(flags, "d") /\ ~dSupported),
   src |-> source,
   flags |-> {flags[k] : k \in 1..Len(flags)}]

(* buildRegex: compiles with flag d, and without it when that throws; the  *)
(* second throw reaches the caller.                                        *)
BuildParsed(parsed, dSupported) ==
  IF ~NewRegExp(parsed.source, parsed.flags, dSupported).threw
  THEN NewRegExp(parsed.source, parsed.flags, dSupported)
  ELSE NewRegExp(parsed.source, SelectSeq(parsed.flags, LAMBDA c : c # "d"), dSupported)

buildRegex(input, dSupported) == BuildParsed(parseRegex(input), dSupported)

(***************************************************************************)
(* maskSpanFromMatch: the [start, end] pair to mask for a match m and an   *)
(* optional group.  Every return of the function is a pair of numbers.     *)
(***************************************************************************)
Undefined == [def |-> FALSE, text |-> << >>]

(* m[n] of the match array.                                                *)
MatchElem(m, n) ==
  IF n = 0 THEN [def |-> TRUE, text |-> m.full]
  ELSE IF n = 1 /\ m.ncap >= 1 /\ m.g1.def THEN [def |-> TRUE, text |-> m.g1.text]
  ELSE Undefined

(* m.groups[name], undefined when the regex has no named group.            *)
MatchNamed(m, name) ==
  IF m.named /\ name = "value" /\ m.g1.def THEN [def |-> TRUE, text |-> m.g1.text]
  ELSE Undefined

(* m.indices[n], and m.indices.groups[name].                               *)
IndicesElem(m, n) ==
  IF n = 0 THEN [def |-> TRUE, s |-> m.index, e |-> m.end]
  ELSE IF n = 1 /\ m.ncap >= 1 /\ m.g1.def THEN [def |-> TRUE, s |-> m.g1.s, e |-> m.g1.e]
  ELSE NoCapture

IndicesNamed(m, name) ==
  IF m.named /\ name = "value" /\ m.g1.def THEN [def |-> TRUE, s |-> m.g1.s, e |-> m.g1.e]
  ELSE NoCapture

(* Number(group) || 0 for a group name.                                    *)
NumberOr0(name) == IF name = "1" THEN 1 ELSE 0

FullSpan(m) == <<m.index, m.index + Len(m.full)>>

(* FallbackSpan with the offset inside the match taken for an offset in    *)
(* the text: the faulty variant property C16 tells from FallbackSpan.      *)
FallbackSpanFromTextStart(m, gT, rel) ==
  IF ~gT.def \/ gT.text = << >> THEN <<m.index, m.index + Len(m.full)>>
  ELSE IF rel < 0 THEN <<m.index, m.index + Len(m.full)>>
  ELSE <<rel, rel + Len(gT.text)>>

(* FallbackSpan without the test `if (!gText)`: the faulty variant         *)
(* property C10 tells from FallbackSpan.                                   *)
FallbackSpanOfNoText(m, gT, rel) ==
  IF rel < 0 THEN <<m.index, m.index + Len(m.full)>>
  ELSE <<m.index + rel, m.index + rel + Len(gT.text)>>

(* The fallback of maskSpanFromMatch: gT is the group's text.              *)
FallbackSpan(m, gT, rel) ==
  IF ~gT.def \/ gT.text = << >> THEN <<m.index, m.index + Len(m.full)>>
  ELSE IF rel < 0 THEN <<m.index, m.index + Len(m.full)>>
  ELSE <<m.index + rel, m.index + rel + Len(gT.text)>>

FallbackText(m, gT) == FallbackSpan(m, gT, IndexOf(m.full, gT.text))

NamedOrElem(idx, m, group) ==
  IF idx.def THEN idx ELSE MatchElem(m, NumberOr0(group.name))

GroupText(m, group) ==
  IF group.kind = "num" THEN MatchElem(m, group.num)
  ELSE NamedOrElem(MatchNamed(m, group.name), m, group)

(* SpanOf returning, with index metadata, the span from the start of the   *)
(* match to the end of the group: the faulty variant property C12 tells    *)
(* from SpanOf.                                                            *)
SpanOfFromMatchStart(m, group, tup) ==
  IF group.kind = "none" THEN <<m.index, m.index + Len(m.full)>>
  ELSE IF m.hasIndices /\ tup.def THEN <<m.index, tup.e>>
  ELSE FallbackText(m, GroupText(m, group))

SpanOf(m, group, tup) ==
  IF group.kind = "none" THEN <<m.index, m.index + Len(m.full)>>
  ELSE IF m.hasIndices /\ tup.def THEN <<tup.s, tup.e>>
  ELSE FallbackText(m, GroupText(m, group))

maskSpanFromMatch(m, group) ==
  SpanOf(m, group, IF group.kind = "num" THEN IndicesElem(m, group.num)
                   ELSE IndicesNamed(m, group.name))

(***************************************************************************)
(* The reveal registry: tempReveals maps a document key to its list of     *)
(* entries [start, end, expires]; a key without a list is the empty list.  *)
(***************************************************************************)
MinRevealMs == 500

RevealEntry(start, end, expires) == [start |-> start, end |-> end, expires |-> expires]

(* cleanupExpiredReveals: the list of a document without its lapsed entries. *)
cleanupExpiredReveals(arr, now) == SelectSeq(arr, LAMBDA x : x.expires > now)

(* isTemporarilyRevealed: the loop over the entries of the document's list, *)
(* from entry i on.                                                        *)
RECURSIVE RevealedFrom(_, _, _, _, _)
(* RevealedFrom without the test of the entry's expiry: the faulty variant *)
(* property C6 tells from RevealedFrom.                                    *)
RevealedFromIgnoresExpiry(arr, i, now, start, end) ==
  IF i > Len(arr) THEN FALSE
  ELSE IF Max2(arr[i].start, start) < Min2(arr[i].end, end) THEN TRUE
  ELSE RevealedFrom(arr, i + 1, now, start, end)

RevealedFrom(arr, i, now, start, end) ==
  IF i > Len(arr) THEN FALSE
  ELSE IF arr[i].expires <= now THEN RevealedFrom(arr, i + 1, now, start, end)
  ELSE IF Max2(arr[i].start, start) < Min2(arr[i].end, end) THEN TRUE
  ELSE RevealedFrom(arr, i + 1, now, start, end)

isTemporarilyRevealed(reveals, doc, now, start, end) ==
  IF Len(reveals[doc]) = 0 THEN FALSE ELSE RevealedFrom(reveals[doc], 1, now, start, end)

(***************************************************************************)
(* The scan of refreshDecorations.  A loop `while ((m = re.exec(text)))`   *)
(* whose iteration leaves lastIndex where it was repeats that iteration    *)
(* for ever (exec is a function of the text and lastIndex): the result     *)
(* then has hang = TRUE.                                                   *)
(***************************************************************************)
MaskSpan(start, end, name) == [start |-> start, end |-> end, name |-> name]

(* EmitsSpan without the filter on spans that end at or before their       *)
(* start: the faulty variant property C1 tells from EmitsSpan.             *)
EmitsSpanKeepsEmpty(span, reveals, doc, now) ==
  ~isTemporarilyRevealed(reveals, doc, now, span[1], span[2])

(* The decision of one iteration of the match loop: does the span of match *)
(* m become a decoration?                                                  *)
EmitsSpan(span, reveals, doc, now) ==
  /\ ~(span[2] <= span[1])
  /\ ~isTemporarilyRevealed(reveals, doc, now, span[1], span[2])

(* The match loop of one pattern, from lastIndex on: the match, its span,  *)
(* the decorations after the iteration, and the next iteration.            *)
RECURSIVE ScanLoop(_, _, _, _, _, _, _, _)
ScanAdvance(next, m, re, text, p, reveals, doc, now, lastIndex) ==
  IF m.end = lastIndex THEN [hang |-> TRUE, decorations |-> next]
  ELSE ScanLoop(re, text, p, reveals, doc, now, m.end, next)

(* ScanEmit leaving out a span another pattern already gave: the faulty    *)
(* variant property C13 tells from ScanEmit.                               *)
ScanEmitMerges(span, m, re, text, p, reveals, doc, now, lastIndex, decorations) ==
  ScanAdvance(IF EmitsSpan(span, reveals, doc, now)
                   /\ \A k \in 1..Len(decorations) :
                        ~(decorations[k].start = span[1] /\ decorations[k].end = span[2])
              THEN Append(decorations, MaskSpan(span[1], span[2], p.name))
              ELSE decorations,
              m, re, text, p, reveals, doc, now, lastIndex)

ScanEmit(span, m, re, text, p, reveals, doc, now, lastIndex, decorations) ==
  ScanAdvance(IF EmitsSpan(span, reveals, doc, now)
              THEN Append(decorations, MaskSpan(span[1], span[2], p.name))
              ELSE decorations,
              m, re, text, p, reveals, doc, now, lastIndex)

ScanMatch(m, re, text, p, reveals, doc, now, lastIndex, decorations) ==
  IF ~m.found THEN [hang |-> FALSE, decorations |-> decorations]
  ELSE ScanEmit(maskSpanFromMatch(m, p.group), m, re, text, p, reveals, doc, now, lastIndex,
                decorations)

ScanLoop(re, text, p, reveals, doc, now, lastIndex, decorations) ==
  ScanMatch(RegExpExec(re, text, lastIndex), re, text, p, reveals, doc, now, lastIndex, decorations)

(* ScanCompiled with the try block around the whole loop, so that a throw  *)
(* loses the spans collected so far: the faulty variant property C3 tells  *)
(* from ScanCompiled.                                                      *)
ScanCompiledLosesSpans(re, text, p, reveals, doc, now, decorations) ==
  IF re.threw THEN [hang |-> FALSE, decorations |-> << >>]
  ELSE ScanLoop(re, text, p, reveals, doc, now, 0, decorations)

(* The body of the loop over the patterns: a pattern whose regex does not  *)
(* compile throws inside the try block and is skipped.                     *)
ScanCompiled(re, text, p, reveals, doc, now, decorations) ==
  IF re.threw THEN [hang |-> FALSE, decorations |-> decorations]
  ELSE ScanLoop(re, text, p, reveals, doc, now, 0, decorations)

ScanPattern(text, p, reveals, doc, now, dSupported, decorations) ==
  ScanCompiled(buildRegex(p.regex, dSupported), text, p, reveals, doc, now, decorations)

(* The loop `for (const p of getPatterns())` from pattern i on.            *)
RECURSIVE ScanFrom(_, _, _, _, _, _, _, _)
ScanNext(r, text, pats, i, reveals, doc, now, dSupported) ==
  IF r.hang THEN r ELSE ScanFrom(text, pats, i + 1, reveals, doc, now, dSupported, r.decorations)

ScanFrom(text, pats, i, reveals, doc, now, dSupported, decorations) ==
  IF i > Len(pats) THEN [hang |-> FALSE, decorations |-> decorations]
  ELSE ScanNext(ScanPattern(text, pats[i], reveals, doc, now, dSupported, decorations),
                text, pats, i, reveals, doc, now, dSupported)

(***************************************************************************)
(* Redaction.                                                              *)
(***************************************************************************)
(* The replacement token of redactText, with < and > for its guillemets.   *)
Hidden == <<"<", "h", "i", "d", "d", "e", "n", ">">>

(* replaceGroupWith: the loop from lastIndex on; out and last are the      *)
(* function's locals.                                                      *)
RECURSIVE ReplaceGroupLoop(_, _, _, _, _, _, _)
ReplaceGroupAdvance(out1, span, m, text, re, group, replacement, lastIndex) ==
  IF m.end = lastIndex THEN [hang |-> TRUE, text |-> out1]
  ELSE ReplaceGroupLoop(text, re, group, replacement, m.end, out1, span[2])

(* ReplaceGroupSpan copying the text up to the start of the match, not of  *)
(* the group: the faulty variant property C8 tells from ReplaceGroupSpan.  *)
ReplaceGroupSpanFromMatch(span, m, text, re, group, replacement, lastIndex, out, last) ==
  ReplaceGroupAdvance(out \o Slice(text, last, m.index) \o replacement,
                      span, m, text, re, group, replacement, lastIndex)

ReplaceGroupSpan(span, m, text, re, group, replacement, lastIndex, out, last) ==
  ReplaceGroupAdvance(out \o Slice(text, last, span[1]) \o replacement,
                      span, m, text, re, group, replacement, lastIndex)

ReplaceGroupMatch(m, text, re, group, replacement, lastIndex, out, last) ==
  IF ~m.found THEN [hang |-> FALSE, text |-> out \o Slice(text, last, Len(text))]
  ELSE ReplaceGroupSpan(maskSpanFromMatch(m, group), m, text, re, group, replacement,
                        lastIndex, out, last)

ReplaceGroupLoop(text, re, group, replacement, lastIndex, out, last) ==
  ReplaceGroupMatch(RegExpExec(re, text, lastIndex), text, re, group, replacement,
                    lastIndex, out, last)

replaceGroupWith(text, re, group, replacement) ==
  ReplaceGroupLoop(text, re, group, replacement, 0, << >>, 0)

(* text.replace(re, () => replacement) of a global regex: the runtime      *)
(* steps lastIndex past an empty match, so it always returns.              *)
RECURSIVE StringReplace(_, _, _, _, _, _)
StringReplaceMatch(m, text, re, replacement, out, nextPos) ==
  IF ~m.found THEN out \o Slice(text, nextPos, Len(text))
  ELSE StringReplace(text, re, replacement,
                     IF m.end = m.index THEN m.end + 1 ELSE m.end,
                     IF m.index >= nextPos
                     THEN out \o Slice(text, nextPos, m.index) \o replacement ELSE out,
                     IF m.index >= nextPos THEN m.end ELSE nextPos)

StringReplace(text, re, replacement, lastIndex, out, nextPos) ==
  StringReplaceMatch(RegExpExec(re, text, lastIndex), text, re, replacement, out, nextPos)

(* The body of redactText's loop for one pattern.                          *)
RedactCompiled(re, text, p) ==
  IF re.threw THEN [hang |-> FALSE, text |-> text]
  ELSE IF p.group.kind # "none" THEN replaceGroupWith(text, re, p.group, Hidden)
  ELSE [hang |-> FALSE, text |-> StringReplace(text, re, Hidden, 0, << >>, 0)]

RedactPattern(text, p, dSupported) ==
  RedactCompiled(buildRegex(p.regex, dSupported), text, p)

(* redactText: the loop over the patterns from pattern i on.               *)
RECURSIVE RedactFrom(_, _, _, _)
(* RedactNext returning after the first pattern: the faulty variant        *)
(* property C9 tells from RedactNext.                                      *)
RedactNextReturns(r, pats, i, dSupported) == r

RedactNext(r, pats, i, dSupported) ==
  IF r.hang THEN r ELSE RedactFrom(r.text, pats, i + 1, dSupported)

RedactFrom(text, pats, i, dSupported) ==
  IF i > Len(pats) THEN [hang |-> FALSE, text |-> text]
  ELSE RedactNext(RedactPattern(text, pats[i], dSupported), pats, i, dSupported)

redactText(text, pats, dSupported) == RedactFrom(text, pats, 1, dSupported)

(***************************************************************************)
(* The patterns of the model.                                              *)
(***************************************************************************)
Lit0 == << >>

(* =(?<value>[aA]+) with group "value": value-only masking of key=value.   *)
PValue == Pattern("value", Rx(<< >>, TRUE, <<"=">>, {"a", "A"}, 1, Lit0, "named", FALSE, Lit0),
                  NameGroup("value"))

(* a+ without a group: the whole match is masked.                          *)
PWord == Pattern("word", Rx(<< >>, TRUE, Lit0, {"a"}, 1, Lit0, "none", FALSE, Lit0), NoGroup)

(* a* without a group: matches the empty string.                           *)
PStar == Pattern("star", Rx(<< >>, TRUE, Lit0, {"a"}, 0, Lit0, "none", FALSE, Lit0), NoGroup)

(* A capture group around a* , with group 1: matches the empty string.     *)
PStarGroup == Pattern("stargroup", Rx(<< >>, TRUE, Lit0, {"a"}, 0, Lit0, "index", FALSE, Lit0),
                      NumGroup(1))

(* = then a capture group around a* , with group 1: a non-empty match      *)
(* whose group can be empty.                                               *)
POptValue == Pattern("optvalue", Rx(<< >>, TRUE, <<"=">>, {"a"}, 0, Lit0, "index", FALSE, Lit0),
                     NumGroup(1))

(* a(a+) with group 1: the captured text also occurs earlier in the match. *)
PAmbiguous == Pattern("ambiguous", Rx(<< >>, TRUE, <<"a">>, {"a"}, 1, Lit0, "index", FALSE, Lit0),
                      NumGroup(1))

(* =(?<value>a+)|A with group "value": the group does not participate in   *)
(* the second alternative.                                                 *)
PAlt == Pattern("alt", Rx(<< >>, TRUE, <<"=">>, {"a"}, 1, Lit0, "named", TRUE, <<"A">>),
                NameGroup("value"))

(* A regex the engine rejects, such as an unbalanced parenthesis.          *)
PInvalid == Pattern("invalid", Rx(<< >>, FALSE, Lit0, {"a"}, 1, Lit0, "none", FALSE, Lit0), NoGroup)

(* (?i)a+ : an inline flag group.                                          *)
PIgnoreCase == Pattern("ignorecase", Rx(<<"i">>, TRUE, Lit0, {"a"}, 1, Lit0, "none", FALSE, Lit0),
                       NoGroup)

(* (?y)a : sticky.                                                         *)
PSticky == Pattern("sticky", Rx(<<"y">>, TRUE, <<"a">>, {}, 0, Lit0, "none", FALSE, Lit0), NoGroup)

(* d+ : matches inside the replacement token.                              *)
PInToken == Pattern("intoken", Rx(<< >>, TRUE, Lit0, {"d"}, 1, Lit0, "none", FALSE, Lit0), NoGroup)

(* BUILTIN_PRESETS, in the regex family of the model: a value-only preset  *)
(* in the shape of ".env (value only)" and a token preset in the shape of  *)
(* "Stripe secret key".                                                    *)
BUILTIN_PRESETS ==
  << Pattern(".env (value only)",
             Rx(<<"m">>, TRUE, <<"A", "=">>, {"a", "A", "="}, 0, Lit0, "named", FALSE, Lit0),
             NameGroup("value")),
     Pattern("Stripe secret key",
             Rx(<<"i">>, TRUE, <<"a", "a">>, {"a"}, 1, Lit0, "none", FALSE, Lit0),
             NoGroup) >>

(* getPatterns: the user's patterns, then the presets when enabled.        *)
getPatterns(userPatterns, extraPresets) ==
  IF extraPresets THEN userPatterns \o BUILTIN_PRESETS ELSE userPatterns

(***************************************************************************)
(* The state of the extension and of the editor host around it.            *)
(***************************************************************************)
VARIABLES
  enabled,          \* the global enabled
  decorationType,   \* TRUE when the global decorationType is not null
  tempReveals,      \* the global map tempReveals: document -> list of entries
  timers,           \* the pending setTimeout callbacks of temporarilyReveal, a bag
  now,              \* Date.now(), in milliseconds
  docText,          \* the text of every document
  visibleEditors,   \* vscode.window.visibleTextEditors, by document
  activeEditor,     \* vscode.window.activeTextEditor, by document, or NoEditor
  decorations,      \* the decorations last set on each document's editor
  userPatterns,     \* the setting streamPrivacy.patterns
  extraPresets,     \* the setting streamPrivacy.extraPresets
  dSupported,       \* whether the runtime's RegExp knows flag d
  clipboard,        \* the text last written to the clipboard
  hung,             \* TRUE once a handler loops for ever: no handler runs after it
  windowTitle,      \* the user setting window.title, Unset when it has none
  prevTitle,        \* the stored previous title (globalState), Null when none
  maskTitle,        \* the setting streamPrivacy.maskWindowTitle
  pending,          \* the async handlers waiting at an await, a bag of continuations
  userTitle,        \* the window.title the user had when the extension first ran
  regexInput,       \* a regex source handed to parseRegex, as characters
  parsed            \* what parseRegex returned for it, NotParsed before the call

vars == <<enabled, decorationType, tempReveals, timers, now, docText, visibleEditors,
          activeEditor, decorations, userPatterns, extraPresets, dSupported,
          clipboard, hung, windowTitle, prevTitle, maskTitle, pending, userTitle,
          regexInput, parsed>>

titleVars == <<windowTitle, prevTitle, maskTitle, pending, userTitle>>

parseVars == <<regexInput, parsed>>

Docs == {"d1", "d2"}

NoEditor == "none"

(* The texts, all of them up to MaxLen characters.                         *)
RECURSIVE TextsOfLen(_)
TextsOfLen(n) ==
  IF n = 0 THEN {<< >>}
  ELSE {Append(t, c) : t \in TextsOfLen(n - 1), c \in Chars}

Texts == UNION {TextsOfLen(n) : n \in 0..MaxLen}

(* The globals refreshDecorations reads and writes, as one record.         *)
Globals == [decorationType |-> decorationType, tempReveals |-> tempReveals,
            decorations |-> decorations, hung |-> hung]

(* refreshDecorations, run on the globals g: returns them as it leaves     *)
(* them.  A scan that loops for ever never reaches setDecorations.         *)
SetDecorations(r, arr, g, active) ==
  [g EXCEPT !.decorationType = TRUE,
            !.tempReveals[active] = arr,
            !.hung = r.hang,
            !.decorations[active] = IF r.hang THEN @ ELSE r.decorations]

ScanEditor(arr, g, active, texts) ==
  SetDecorations(ScanFrom(texts[active], getPatterns(userPatterns, extraPresets), 1,
                          [g.tempReveals EXCEPT ![active] = arr], active, now,
                          dSupported, << >>),
                 arr, g, active)

refreshDecorations(g, active, texts) ==
  IF ~enabled THEN g
  ELSE IF active = NoEditor THEN [g EXCEPT !.decorationType = TRUE]
  ELSE ScanEditor(cleanupExpiredReveals(g.tempReveals[active], now), g, active, texts)

(* Writes the globals back.                                                *)
SetGlobals(g) ==
  /\ decorationType' = g.decorationType
  /\ tempReveals' = g.tempReveals
  /\ decorations' = g.decorations
  /\ hung' = g.hung

(* RevealAtRange with the duration taken as given, never raised to the     *)
(* minimum: the faulty variant property C14 tells from RevealAtRange.      *)
RevealAtRangeUnclamped(doc, start, end, ms) ==
  /\ ~hung
  /\ doc \in visibleEditors
  /\ BagCardinality(timers) < MaxReveals
  /\ LET g == [Globals EXCEPT !.tempReveals[doc] =
                                Append(@, RevealEntry(start, end, now + ms))]
     IN /\ SetGlobals(IF doc = activeEditor THEN refreshDecorations(g, activeEditor, docText)
                      ELSE g)
        /\ timers' = timers (+) SetToBag({[doc |-> doc, start |-> start, end |-> end,
                                            due |-> now + Max2(MinRevealMs, ms)]})
  /\ UNCHANGED <<titleVars, parseVars>>
  /\ UNCHANGED <<enabled, now, docText, visibleEditors, activeEditor, userPatterns,
                 extraPresets, dSupported, clipboard>>

(***************************************************************************)
(* The handlers.  JavaScript runs one handler at a time, to its end.       *)
(***************************************************************************)
(* The command streamPrivacy.revealAtRange for a visible document, with    *)
(* temporarilyReveal: the entry, the refresh when the document is the      *)
(* active one, and the timer.                                              *)
RevealAtRange(doc, start, end, ms) ==
  /\ ~hung
  /\ doc \in visibleEditors
  /\ BagCardinality(timers) < MaxReveals
  /\ LET expires == now + Max2(MinRevealMs, ms)
         g == [Globals EXCEPT !.tempReveals[doc] =
                                Append(@, RevealEntry(start, end, expires))]
     IN /\ SetGlobals(IF doc = activeEditor THEN refreshDecorations(g, activeEditor, docText)
                      ELSE g)
        /\ timers' = timers (+) SetToBag({[doc |-> doc, start |-> start, end |-> end,
                                            due |-> now + Max2(MinRevealMs, ms)]})
  /\ UNCHANGED <<titleVars, parseVars>>
  /\ UNCHANGED <<enabled, now, docText, visibleEditors, activeEditor, userPatterns,
                 extraPresets, dSupported, clipboard>>

(* The callback temporarilyReveal gave to setTimeout, run once it is due.  *)
TimerFire(t) ==
  /\ ~hung
  /\ t \in BagToSet(timers)
  /\ t.due <= now
  /\ LET g == [Globals EXCEPT !.tempReveals[t.doc] =
                 SelectSeq(@, LAMBDA x : x.expires > now
                                          /\ ~(x.start = t.start /\ x.end = t.end))]
     IN /\ SetGlobals(IF t.doc = activeEditor
                      THEN refreshDecorations(g, activeEditor, docText) ELSE g)
  /\ timers' = timers (-) SetToBag({t})
  /\ UNCHANGED <<titleVars, parseVars>>
  /\ UNCHANGED <<enabled, now, docText, visibleEditors, activeEditor, userPatterns,
                 extraPresets, dSupported, clipboard>>

(* onDidChangeActiveTextEditor: the host made ed the active editor.        *)
ChangeActiveEditor(ed) ==
  /\ ~hung
  /\ ed \in visibleEditors \cup {NoEditor}
  /\ ed # activeEditor
  /\ activeEditor' = ed
  /\ SetGlobals(refreshDecorations(Globals, ed, docText))
  /\ UNCHANGED <<titleVars, parseVars>>
  /\ UNCHANGED <<enabled, timers, now, docText, visibleEditors, userPatterns,
                 extraPresets, dSupported, clipboard>>

(* onDidChangeTextDocument: an edit made text the text of doc.             *)
EditDocument(doc, text) ==
  /\ ~hung
  /\ text # docText[doc]
  /\ docText' = [docText EXCEPT ![doc] = text]
  /\ SetGlobals(IF doc = activeEditor
                THEN refreshDecorations(Globals, activeEditor, docText') ELSE Globals)
  /\ UNCHANGED <<titleVars, parseVars>>
  /\ UNCHANGED <<enabled, timers, now, visibleEditors, activeEditor, userPatterns,
                 extraPresets, dSupported, clipboard>>

(* The end of copyRedacted: r is what redactText came to.                  *)
WriteClipboard(r) ==
  /\ hung' = r.hang
  /\ clipboard' = IF r.hang THEN clipboard ELSE r.text

(* The command streamPrivacy.copyRedacted with the selection [from, to) of *)
(* the active editor's document.                                           *)
CopyRedacted(from, to) ==
  /\ ~hung
  /\ activeEditor # NoEditor
  /\ from < to /\ to <= Len(docText[activeEditor])
  /\ WriteClipboard(redactText(Slice(docText[activeEditor], from, to),
                               getPatterns(userPatterns, extraPresets), dSupported))
  /\ UNCHANGED <<titleVars, parseVars>>
  /\ UNCHANGED <<enabled, decorationType, tempReveals, timers, now, docText,
                 visibleEditors, activeEditor, decorations, userPatterns, extraPresets,
                 dSupported>>

(* Time passes, TickMs milliseconds at a time.                             *)
TickMs == MinRevealMs \div 2

Tick ==
  /\ now < MaxNow * TickMs
  /\ now' = now + TickMs
  /\ UNCHANGED <<titleVars, parseVars>>
  /\ UNCHANGED <<enabled, decorationType, tempReveals, timers, docText, visibleEditors,
                 activeEditor, decorations, userPatterns, extraPresets, dSupported,
                 clipboard, hung>>

(***************************************************************************)
(* The window title and the async handlers.  An async handler runs to its  *)
(* next await in one step; what is left of it waits in pending, and the    *)
(* host resumes the waiting handlers in any order.  A write to the         *)
(* settings or to globalState takes effect in the step that makes it.      *)
(***************************************************************************)
Unset == "unset"

Null == "null"

UserTitle == "${rootName}"

DefaultTitle == "${activeEditorShort}"

MaskedValue == "${appName}"

(* cfg.get('title'): the user's setting, the default when there is none.   *)
ConfiguredTitle(title) == IF title = Unset THEN DefaultTitle ELSE title

Continuation(op, on, from) == [op |-> op, on |-> on, from |-> from]

TitleState == [windowTitle |-> windowTitle, prevTitle |-> prevTitle, pending |-> pending]

SetTitleState(h) ==
  /\ windowTitle' = h.windowTitle
  /\ prevTitle' = h.prevTitle
  /\ pending' = h.pending

Awaiting(h, c) == [h EXCEPT !.pending = @ (+) SetToBag({c})]

Resumed(h, c) == [h EXCEPT !.pending = @ (-) SetToBag({c})]

(* applyMaskWindowTitle up to its first await, called by from.             *)
applyMaskWindowTitle(h, mask, turnOn, from) ==
  IF ~mask THEN h
  ELSE IF turnOn
  THEN Awaiting([h EXCEPT !.prevTitle = ConfiguredTitle(h.windowTitle)],
                Continuation("title", TRUE, from))
  ELSE Awaiting([h EXCEPT !.windowTitle = IF h.prevTitle = Null THEN Unset
                                          ELSE h.prevTitle],
                Continuation("title", FALSE, from))

(* applyMaskWindowTitle from its first await on.                           *)
applyMaskWindowTitleRest(h, c) ==
  IF c.on THEN [h EXCEPT !.windowTitle = MaskedValue] ELSE [h EXCEPT !.prevTitle = Null]

ensureDecorationType(g) == [g EXCEPT !.decorationType = TRUE]

(* decorationType.dispose(): the decorations of the type leave every       *)
(* editor.                                                                 *)
Dispose(g) ==
  [g EXCEPT !.decorationType = FALSE, !.decorations = [d \in Docs |-> << >>]]

(* clearDecorations leaving the decoration type as it is: the faulty       *)
(* variant property C18 tells from clearDecorations.                       *)
clearDecorationsKeepsType(g) ==
  [g EXCEPT !.decorations = [d \in Docs |-> IF d \in visibleEditors THEN << >> ELSE @[d]]]

clearDecorations(g) ==
  IF g.decorationType
  THEN Dispose([g EXCEPT !.decorations =
                           [d \in Docs |-> IF d \in visibleEditors THEN << >> ELSE @[d]]])
  ELSE g

(* The end of cycleStyle and of showStatusActions: a new decoration type   *)
(* and a new scan, when enabled.                                           *)
Restyle(g) ==
  IF ~enabled THEN g
  ELSE refreshDecorations(ensureDecorationType(IF g.decorationType THEN Dispose(g) ELSE g),
                          activeEditor, docText)

(* toggle up to its first await.                                           *)
Toggle ==
  /\ ~hung
  /\ BagCardinality(pending) < MaxPending
  /\ enabled' = ~enabled
  /\ pending' = pending (+) SetToBag({Continuation("toggle", ~enabled, "toggle")})
  /\ UNCHANGED <<decorationType, tempReveals, timers, now, docText, visibleEditors,
                 activeEditor, decorations, userPatterns, extraPresets, dSupported,
                 clipboard, hung, windowTitle, prevTitle, maskTitle, userTitle>>
  /\ UNCHANGED parseVars

(* toggle after the configuration update: it decorates or clears by the    *)
(* global enabled as it is now, then calls applyMaskWindowTitle.           *)
ResumeToggle(c) ==
  /\ ~hung
  /\ c \in BagToSet(pending) /\ c.op = "toggle"
  /\ SetGlobals(IF enabled
                THEN refreshDecorations(ensureDecorationType(Globals), activeEditor, docText)
                ELSE clearDecorations(Globals))
  /\ SetTitleState(applyMaskWindowTitle(Resumed(TitleState, c), maskTitle, enabled, "toggle"))
  /\ UNCHANGED <<enabled, timers, now, docText, visibleEditors, activeEditor,
                 userPatterns, extraPresets, dSupported, clipboard, maskTitle, userTitle>>
  /\ UNCHANGED parseVars

(* applyMaskWindowTitle resumed; showStatusActions goes on after it.       *)
ResumeTitle(c) ==
  /\ ~hung
  /\ c \in BagToSet(pending) /\ c.op = "title"
  /\ SetTitleState(applyMaskWindowTitleRest(Resumed(TitleState, c), c))
  /\ SetGlobals(IF c.from = "mask" THEN Restyle(Globals) ELSE Globals)
  /\ UNCHANGED <<enabled, timers, now, docText, visibleEditors, activeEditor,
                 userPatterns, extraPresets, dSupported, clipboard, maskTitle, userTitle>>
  /\ UNCHANGED parseVars

(* cycleStyle up to its await: the style setting is written.               *)
CycleStyle ==
  /\ ~hung
  /\ BagCardinality(pending) < MaxPending
  /\ pending' = pending (+) SetToBag({Continuation("cycle", FALSE, "cycle")})
  /\ UNCHANGED <<enabled, decorationType, tempReveals, timers, now, docText,
                 visibleEditors, activeEditor, decorations, userPatterns, extraPresets,
                 dSupported, clipboard, hung, windowTitle, prevTitle, maskTitle, userTitle>>
  /\ UNCHANGED parseVars

ResumeCycle(c) ==
  /\ ~hung
  /\ c \in BagToSet(pending) /\ c.op = "cycle"
  /\ SetGlobals(Restyle(Globals))
  /\ pending' = pending (-) SetToBag({c})
  /\ UNCHANGED <<enabled, timers, now, docText, visibleEditors, activeEditor,
                 userPatterns, extraPresets, dSupported, clipboard, windowTitle,
                 prevTitle, maskTitle, userTitle>>
  /\ UNCHANGED parseVars

(* showStatusActions, the choice "Window Title Mask", up to the await of   *)
(* the setting's update.                                                   *)
ChangeMaskSetting ==
  /\ ~hung
  /\ BagCardinality(pending) < MaxPending
  /\ maskTitle' = ~maskTitle
  /\ pending' = pending (+) SetToBag({Continuation("mask", FALSE, "mask")})
  /\ UNCHANGED <<enabled, decorationType, tempReveals, timers, now, docText,
                 visibleEditors, activeEditor, decorations, userPatterns, extraPresets,
                 dSupported, clipboard, hung, windowTitle, prevTitle, userTitle>>
  /\ UNCHANGED parseVars

(* showStatusActions after the setting's update: applyMaskWindowTitle when *)
(* enabled, and the new decoration type once that has returned.            *)
ResumeMask(c) ==
  /\ ~hung
  /\ c \in BagToSet(pending) /\ c.op = "mask"
  /\ SetTitleState(IF enabled
                   THEN applyMaskWindowTitle(Resumed(TitleState, c), maskTitle, TRUE, "mask")
                   ELSE Resumed(TitleState, c))
  /\ SetGlobals(IF enabled /\ maskTitle THEN Globals ELSE Restyle(Globals))
  /\ UNCHANGED <<enabled, timers, now, docText, visibleEditors, activeEditor,
                 userPatterns, extraPresets, dSupported, clipboard, maskTitle, userTitle>>
  /\ UNCHANGED parseVars

(* The window is reloaded with no handler waiting: the globals start       *)
(* anew, the settings and globalState stay, and activate runs.             *)
Reactivate ==
  /\ pending = EmptyBag
  /\ timers' = EmptyBag
  /\ SetGlobals(refreshDecorations([decorationType |-> FALSE,
                                    tempReveals |-> [d \in Docs |-> << >>],
                                    decorations |-> [d \in Docs |-> << >>],
                                    hung |-> FALSE],
                                   activeEditor, docText))
  /\ SetTitleState(applyMaskWindowTitle(TitleState, maskTitle, enabled, "activate"))
  /\ UNCHANGED <<enabled, now, docText, visibleEditors, activeEditor, userPatterns,
                 extraPresets, dSupported, clipboard, maskTitle, userTitle>>
  /\ UNCHANGED parseVars

(* parseRegex called on the source regexInput.                             *)
NotParsed == [source |-> << >>, flags |-> << >>]

ParseRegex ==
  /\ parsed = NotParsed
  /\ parsed' = parseRegexText(regexInput)
  /\ UNCHANGED <<enabled, decorationType, tempReveals, timers, now, docText,
                 visibleEditors, activeEditor, decorations, userPatterns, extraPresets,
                 dSupported, clipboard, hung, regexInput>>
  /\ UNCHANGED titleVars

(***************************************************************************)
(* The state after activate(): enabled comes from the configuration, and   *)
(* an enabled extension creates its decoration type and scans the active   *)
(* editor.                                                                 *)
(***************************************************************************)
InitGlobals(g) ==
  /\ decorationType = g.decorationType
  /\ tempReveals = g.tempReveals
  /\ decorations = g.decorations
  /\ hung = g.hung

Activated(enabledCfg, runtimes, presetsCfg, pats, texts, visible, actives) ==
  /\ enabled \in enabledCfg
  /\ dSupported \in runtimes
  /\ extraPresets \in presetsCfg
  /\ userPatterns \in pats
  /\ docText \in texts
  /\ visibleEditors \in visible
  /\ activeEditor \in (visibleEditors \cup {NoEditor}) \cap actives
  /\ now = 0
  /\ timers = EmptyBag
  /\ clipboard = << >>
  /\ InitGlobals(refreshDecorations([decorationType |-> FALSE,
                                     tempReveals |-> [d \in Docs |-> << >>],
                                     decorations |-> [d \in Docs |-> << >>],
                                     hung |-> FALSE],
                                    activeEditor, docText))

(* activate's call of applyMaskWindowTitle, up to its first await, with    *)
(* nothing stored in globalState.                                          *)
InitTitleState(h) ==
  /\ windowTitle = h.windowTitle
  /\ prevTitle = h.prevTitle
  /\ pending = h.pending

TitleActivated(maskCfg, titles) ==
  /\ maskTitle \in maskCfg
  /\ userTitle \in titles
  /\ InitTitleState(applyMaskWindowTitle([windowTitle |-> userTitle, prevTitle |-> Null,
                                          pending |-> EmptyBag],
                                         maskTitle, enabled, "activate"))

NothingParsed == regexInput = << >> /\ parsed = NotParsed

(* The texts and settings of the specification of the whole extension.     *)
SessionTexts == {<<"a", "=", "a">>, <<"A", "=", "a">>}

SessionPatterns == {<<PValue, PWord>>}

(* The ranges a reveal is asked for: [0,1) is a span of the session's      *)
(* texts, [1,3) overlaps one in part.                                      *)
SessionRanges == {<<0, 1>>, <<1, 3>>}

(* The durations a reveal is asked for, in milliseconds.                   *)
Durations == {0, 750}

Init ==
  /\ Activated({TRUE}, {TRUE}, {FALSE}, SessionPatterns,
               {[d \in Docs |-> <<"a", "=", "a">>]}, {Docs, {"d1"}}, Docs \cup {NoEditor})
  /\ TitleActivated({FALSE}, {UserTitle})
  /\ NothingParsed

Next ==
  \/ \E r \in SessionRanges : \E ms \in Durations : RevealAtRange("d1", r[1], r[2], ms)
  \/ RevealAtRange("d2", 0, 1, 0)
  \/ \E t \in BagToSet(timers) : TimerFire(t)
  \/ \E ed \in Docs \cup {NoEditor} : ChangeActiveEditor(ed)
  \/ \E text \in SessionTexts : EditDocument("d1", text)
  \/ Tick

Spec == Init /\ [][Next]_vars

(***************************************************************************)
(* The specification of the masking engine: every text up to MaxLen        *)
(* characters and every list of up to MaxPatterns patterns, scanned by     *)
(* the refresh of the active editor and redacted by the copy command.      *)
(***************************************************************************)
PatternUniverse == {PValue, PWord, PStar, PStarGroup, POptValue, PAmbiguous, PAlt,
                    PInvalid, PIgnoreCase, PSticky, PInToken}

RECURSIVE PatternLists(_)
PatternLists(n) ==
  IF n = 0 THEN {<< >>}
  ELSE PatternLists(n - 1)
         \cup {Append(l, p) : l \in {k \in PatternLists(n - 1) : Len(k) = n - 1},
                              p \in PatternUniverse}

EngineInit ==
  /\ Activated({TRUE}, BOOLEAN, {FALSE}, PatternLists(MaxPatterns),
               {[d \in Docs |-> IF d = "d1" THEN t ELSE << >>] : t \in Texts}, {Docs}, {"d1"})
  /\ TitleActivated({FALSE}, {UserTitle})
  /\ NothingParsed

EngineNext == CopyRedacted(0, Len(docText[activeEditor]))

EngineSpec == EngineInit /\ [][EngineNext]_vars

(***************************************************************************)
(* The specification of the window title: Streamer Mode switched on and    *)
(* off, the title mask switched on and off, the window reloaded.           *)
(***************************************************************************)
TitleInit ==
  /\ Activated(BOOLEAN, {TRUE}, {TRUE}, SessionPatterns,
               {[d \in Docs |-> <<"A", "=", "a">>]}, {Docs}, {"d1"})
  /\ TitleActivated(BOOLEAN, {UserTitle, Unset})
  /\ NothingParsed

TitleNext ==
  \/ Toggle
  \/ \E c \in BagToSet(pending) : ResumeToggle(c)
  \/ \E c \in BagToSet(pending) : ResumeTitle(c)
  \/ ChangeMaskSetting
  \/ \E c \in BagToSet(pending) : ResumeMask(c)
  \/ Reactivate

TitleSpec == TitleInit /\ [][TitleNext]_vars

(***************************************************************************)
(* The specification of the switch: Streamer Mode switched on and off and  *)
(* the style cycled, the handlers overlapping, among reveals and editor    *)
(* events.                                                                 *)
(***************************************************************************)
ToggleInit ==
  /\ Activated({TRUE}, {TRUE}, {FALSE}, SessionPatterns,
               {[d \in Docs |-> <<"a", "=", "a">>]}, {Docs}, Docs \cup {NoEditor})
  /\ TitleActivated({TRUE}, {UserTitle})
  /\ NothingParsed

ToggleNext ==
  \/ Toggle
  \/ \E c \in BagToSet(pending) : ResumeToggle(c)
  \/ \E c \in BagToSet(pending) : ResumeTitle(c)
  \/ CycleStyle
  \/ \E c \in BagToSet(pending) : ResumeCycle(c)
  \/ RevealAtRange("d1", 0, 1, 0)
  \/ \E t \in BagToSet(timers) : TimerFire(t)
  \/ \E ed \in Docs \cup {NoEditor} : ChangeActiveEditor(ed)
  \/ Tick

ToggleSpec == ToggleInit /\ [][ToggleNext]_vars

(***************************************************************************)
(* The specification of parseRegex: every source up to MaxSource           *)
(* characters.                                                             *)
(***************************************************************************)
(* The sources of n characters.                                            *)
SourcesOfLen(n) == [1..n -> SourceChars]

ParseInit ==
  /\ Activated({FALSE}, {TRUE}, {FALSE}, {<< >>}, {[d \in Docs |-> << >>]}, {Docs}, {"d1"})
  /\ TitleActivated({FALSE}, {UserTitle})
  /\ \E n \in 0..MaxSource : regexInput \in SourcesOfLen(n)
  /\ parsed = NotParsed

ParseNext == ParseRegex

ParseSpec == ParseInit /\ [][ParseNext]_vars

(***************************************************************************)
(* Properties.  What the properties speak of, first.                       *)
(***************************************************************************)
Range(seq) == {seq[k] : k \in 1..Len(seq)}

Overlaps(s1, e1, s2, e2) == Max2(s1, s2) < Min2(e1, e2)

(* The patterns in force.                                                  *)
CurrentPatterns == getPatterns(userPatterns, extraPresets)

(* What a scan of doc comes to now with the registry reveals.              *)
ScanWith(doc, reveals) ==
  ScanFrom(docText[doc], CurrentPatterns, 1, reveals, doc, now, dSupported, << >>)

(* What a scan of doc comes to now: refreshDecorations drops the lapsed    *)
(* entries of doc, then scans.                                             *)
ScanNow(doc) ==
  ScanWith(doc, [tempReveals EXCEPT ![doc] = cleanupExpiredReveals(@, now)])

(* The spans of doc's matches, nothing revealed.                           *)
ScanUnrevealed(doc) == ScanWith(doc, [d \in Docs |-> << >>]).decorations

(* The reveals of doc whose time has not run out: every reveal has its     *)
(* timer pending from its registration until after its expiry.             *)
UnexpiredReveals(doc) == {t \in BagToSet(timers) : t.doc = doc /\ now < t.due}

(* The successive matches of re in text from lastIndex on, as a global     *)
(* search steps: past a match, and one character past an empty one.        *)
RECURSIVE MatchesFrom(_, _, _)
MatchesNext(m, re, text) ==
  IF ~m.found THEN << >>
  ELSE <<m>> \o MatchesFrom(re, text, IF m.end = m.index THEN m.end + 1 ELSE m.end)

MatchesFrom(re, text, lastIndex) ==
  IF lastIndex > Len(text) THEN << >>
  ELSE MatchesNext(RegExpExec(re, text, lastIndex), re, text)

(* Whether the regex of p compiles, and the patterns of a list that do.    *)
Compiles(p) == ~buildRegex(p.regex, dSupported).threw

Compilable(pats) == SelectSeq(pats, LAMBDA p : Compiles(p))

(* C1: every mask span a scan emits for a text T has                       *)
(* 0 <= start < end <= Len(T), whatever the patterns and the registry: the *)
(* spans shown on an editor, and the spans of a scan of the document with  *)
(* the registry as it is or with any one unexpired entry.                  *)
InBounds(span, text) == 0 <= span.start /\ span.start < span.end /\ span.end <= Len(text)

AllInBounds(spans, text) == \A k \in 1..Len(spans) : InBounds(spans[k], text)

Registries(doc) ==
  {tempReveals}
    \cup {[tempReveals EXCEPT ![doc] = <<RevealEntry(r[1], r[2], now + MinRevealMs)>>] :
            r \in {x \in (0..MaxLen) \X (0..MaxLen) : x[1] < x[2]}}

C1_SpansInBounds ==
  \A d \in Docs :
    /\ AllInBounds(decorations[d], docText[d])
    /\ \A reveals \in Registries(d) :
         AllInBounds(ScanWith(d, reveals).decorations, docText[d])

(* A scan has emitted several spans, one of them a group's span that       *)
(* starts inside its match.                                                *)
C1_Witness ==
  /\ ~hung
  /\ Len(decorations["d1"]) >= 2
  /\ \E k \in 1..Len(decorations["d1"]) : decorations["d1"][k].start > 0

(* C2: while a reveal of the range [s, e) of a document is unexpired, no   *)
(* scan of the document emits a span that overlaps [s, e); and a span that *)
(* no unexpired reveal overlaps is emitted.                                *)
NoSpanOverlaps(spans, t) ==
  \A k \in 1..Len(spans) : ~Overlaps(spans[k].start, spans[k].end, t.start, t.end)

Unrevealed(span, doc) ==
  \A t \in UnexpiredReveals(doc) : ~Overlaps(span.start, span.end, t.start, t.end)

C2_RevealSuppresses ==
  \A d \in Docs :
    /\ \A t \in UnexpiredReveals(d) : NoSpanOverlaps(ScanNow(d).decorations, t)
    /\ \A span \in Range(ScanUnrevealed(d)) :
         Unrevealed(span, d) => span \in Range(ScanNow(d).decorations)

(* C3: a pattern whose regex does not compile changes nothing: the scan    *)
(* and the redaction come to what they come to for the list of the         *)
(* patterns that compile, and so do the decorations shown and the text     *)
(* copied.                                                                 *)
ScanCompilable(doc) ==
  ScanFrom(docText[doc], Compilable(CurrentPatterns), 1, tempReveals, doc, now,
           dSupported, << >>)

RedactCompilable(doc) == redactText(docText[doc], Compilable(CurrentPatterns), dSupported)

C3_FaultIsolation ==
  /\ ScanWith("d1", tempReveals) = ScanCompilable("d1")
  /\ redactText(docText["d1"], CurrentPatterns, dSupported) = RedactCompilable("d1")
  /\ ~hung => decorations["d1"] = ScanCompilable("d1").decorations
  /\ clipboard # << >> => clipboard = RedactCompilable("d1").text

(* A pattern that does not compile stands before one that matched, and the *)
(* text was copied.                                                        *)
C3_Witness ==
  /\ userPatterns = <<PInvalid, PWord>>
  /\ decorations["d1"] # << >>
  /\ clipboard # << >>

(* C4: when the timer of a reveal of document D has fired while an editor  *)
(* shows D and masking is on, the decorations on D's editor mask every     *)
(* span of D's matches that no unexpired reveal overlaps.  Stated for an   *)
(* editor that, before the timer fired, showed masks, one on every span no *)
(* entry of D's registry overlapped.  The timer's step changes neither the text nor the *)
(* time, so the spans of D's matches are those before the step.            *)
OutsideRegistry(doc, span) ==
  \A k \in 1..Len(tempReveals[doc]) :
    ~Overlaps(span.start, span.end, tempReveals[doc][k].start, tempReveals[doc][k].end)

MaskedButRevealed(doc) ==
  /\ decorations[doc] # << >>
  /\ \A span \in Range(ScanUnrevealed(doc)) :
       OutsideRegistry(doc, span) => span \in Range(decorations[doc])

OutsideReveals(span, reveals) ==
  \A t \in reveals : ~Overlaps(span.start, span.end, t.start, t.end)

UnexpiredAmong(bag, doc) == {t \in BagToSet(bag) : t.doc = doc /\ now < t.due}

MasksAllBut(shown, spans, reveals) ==
  \A span \in Range(spans) : OutsideReveals(span, reveals) => span \in Range(shown)

C4_MaskBackAfterExpiry ==
  [][\A t \in BagToSet(timers) :
       (TimerFire(t) /\ enabled /\ t.doc \in visibleEditors /\ MaskedButRevealed(t.doc))
          => MasksAllBut(decorations'[t.doc], ScanUnrevealed(t.doc),
                         UnexpiredAmong(timers', t.doc))]_vars

(* C5: of two reveals of one range, the second registered before the first *)
(* has expired, each lasts to its own expiry: the range is revealed as     *)
(* long as one of them is unexpired.                                       *)
C5_DuplicateReveals ==
  \A t \in BagToSet(timers) :
    (now < t.due /\ t.start < t.end)
       => isTemporarilyRevealed(tempReveals, t.doc, now, t.start, t.end)

(* C6: isTemporarilyRevealed(D, s, e) at time t is true if and only if the *)
(* registry holds for D an entry E with E.expires > t and                  *)
(* max(E.start, s) < min(E.end, e); the entries of other documents and the *)
(* expired ones count for nothing.                                         *)
SomeEntryReveals(arr, start, end) ==
  \E k \in 1..Len(arr) :
    /\ arr[k].expires > now
    /\ Max2(arr[k].start, start) < Min2(arr[k].end, end)

C6_RevealedIff ==
  \A d \in Docs : \A s \in 0..MaxLen : \A e \in 0..MaxLen :
    isTemporarilyRevealed(tempReveals, d, now, s, e) <=> SomeEntryReveals(tempReveals[d], s, e)

(* The registry of d1 holds an expired entry for [0, 1) and an unexpired   *)
(* one for [1, 3): [2, 3) is revealed in d1, [0, 1) is not, and nothing is *)
(* revealed in d2, whose registry is empty.                                *)
C6_Witness ==
  /\ \E k \in 1..Len(tempReveals["d1"]) :
       tempReveals["d1"][k].expires <= now
         /\ tempReveals["d1"][k].start = 0 /\ tempReveals["d1"][k].end = 1
  /\ \E k \in 1..Len(tempReveals["d1"]) :
       tempReveals["d1"][k].expires > now
         /\ tempReveals["d1"][k].start = 1 /\ tempReveals["d1"][k].end = 3
  /\ isTemporarilyRevealed(tempReveals, "d1", now, 2, 3)
  /\ ~isTemporarilyRevealed(tempReveals, "d1", now, 0, 1)
  /\ ~isTemporarilyRevealed(tempReveals, "d2", now, 1, 3)

(* C7: every scan and every redaction terminates, for every pattern, also  *)
(* one that matches the empty string: no handler loops for ever.           *)
C7_Terminates == ~hung

(* C8: redaction with a pattern that names a capture group replaces the    *)
(* resolved span of the group in each match, and with a pattern without a  *)
(* group the span of each whole match, by one token, and leaves every      *)
(* other character where it is: the result is the text with the tokens     *)
(* spliced in span by span, here from the last span to the first.  Stated  *)
(* of the redactions that return.                                          *)
RedactedSpans(ms, group) ==
  [k \in 1..Len(ms) |-> IF group.kind = "none" THEN FullSpan(ms[k])
                        ELSE maskSpanFromMatch(ms[k], group)]

RECURSIVE Splice(_, _, _)
Splice(text, spans, replacement) ==
  IF spans = << >> THEN text
  ELSE Splice(Slice(text, 0, spans[Len(spans)][1]) \o replacement
                \o Slice(text, spans[Len(spans)][2], Len(text)),
              SubSeq(spans, 1, Len(spans) - 1), replacement)

Spliced(text, re, p) ==
  Splice(text, RedactedSpans(MatchesFrom(re, text, 0), p.group), Hidden)

SpanScoped(r, text, re, p) == r.hang \/ r.text = Spliced(text, re, p)

C8_GroupScopedRedaction ==
  /\ \A k \in 1..Len(userPatterns) :
       Compiles(userPatterns[k])
         => SpanScoped(RedactPattern(docText["d1"], userPatterns[k], dSupported),
                       docText["d1"], buildRegex(userPatterns[k].regex, dSupported),
                       userPatterns[k])
  /\ (Len(userPatterns) = 1 /\ Compiles(userPatterns[1]) /\ clipboard # << >>)
       => clipboard = Spliced(docText["d1"],
                              buildRegex(userPatterns[1].regex, dSupported),
                              userPatterns[1])

(* The copy of "=aA" with the value-only pattern: the key's "=" stays, the *)
(* value is one token.                                                     *)
C8_Witness ==
  /\ userPatterns = <<PValue>>
  /\ docText["d1"] = <<"=", "a", "A">>
  /\ clipboard = <<"=">> \o Hidden

(* C9: redaction with the patterns P1..Pn is the left fold of the one-     *)
(* pattern redaction over them: Pk works on what P1..Pk-1 made of the      *)
(* text, replacement tokens included.                                      *)
RECURSIVE FoldRedact(_, _, _)
FoldStep(acc, p) == IF acc.hang THEN acc ELSE RedactPattern(acc.text, p, dSupported)

FoldRedact(text, pats, n) ==
  IF n = 0 THEN [hang |-> FALSE, text |-> text]
  ELSE FoldStep(FoldRedact(text, pats, n - 1), pats[n])

FoldNow == FoldRedact(docText["d1"], CurrentPatterns, Len(CurrentPatterns))

C9_RedactionFolds ==
  /\ redactText(docText["d1"], CurrentPatterns, dSupported) = FoldNow
  /\ clipboard # << >> => clipboard = FoldNow.text

(* The second pattern matched inside the token the first one put.          *)
C9_Witness ==
  /\ userPatterns = <<PWord, PInToken>>
  /\ docText["d1"] = <<"a">>
  /\ clipboard = <<"<", "h", "i">> \o Hidden \o <<"e", "n", ">">>

(* C10: for a match whose selected group captured no text,                 *)
(* maskSpanFromMatch returns the span of the whole match, with index       *)
(* metadata or without.  The group a selector selects: the group of that   *)
(* number; for a name the group of that name, or, the regex having none of *)
(* that name, the group whose number the name spells.                      *)
Selectors == {NumGroup(0), NumGroup(1), NumGroup(2),
              NameGroup("value"), NameGroup("nope"), NameGroup("1")}

SelectedCapture(m, group) ==
  IF group.kind = "num" THEN MatchElem(m, group.num)
  ELSE IF MatchNamed(m, group.name).def THEN MatchNamed(m, group.name)
  ELSE MatchElem(m, NumberOr0(group.name))

CapturedNoText(m, group) ==
  ~SelectedCapture(m, group).def \/ SelectedCapture(m, group).text = << >>

(* The matches of the compiling patterns in force in the text of d1.       *)
MatchesOf(p) == MatchesFrom(buildRegex(p.regex, dSupported), docText["d1"], 0)

CurrentMatches ==
  UNION {Range(MatchesOf(userPatterns[k])) :
           k \in {j \in 1..Len(userPatterns) : Compiles(userPatterns[j])}}

C10_FullSpanWhenNoText ==
  \A m \in CurrentMatches : \A group \in Selectors :
    CapturedNoText(m, group) => maskSpanFromMatch(m, group) = FullSpan(m)

(* C10 as the code has it: the span of the whole match is returned when    *)
(* the selected group took no part in the match, and when it captured the  *)
(* empty string and the match carries no index metadata.                   *)
C10_FullSpanWithoutMetadata ==
  \A m \in CurrentMatches : \A group \in Selectors :
    (CapturedNoText(m, group) /\ (~m.hasIndices \/ ~SelectedCapture(m, group).def))
       => maskSpanFromMatch(m, group) = FullSpan(m)

(* Without index metadata, "=" matched by = and a group around a* : the    *)
(* group captured the empty string and the whole match is masked.          *)
C10_Witness ==
  /\ ~dSupported
  /\ userPatterns = <<POptValue>>
  /\ docText["d1"] = <<"=">>
  /\ \E m \in CurrentMatches : CapturedNoText(m, NumGroup(1)) /\ ~m.hasIndices
  /\ decorations["d1"] = <<MaskSpan(0, 1, "optvalue")>>

(* C11: the redactor discards a resolved span with end <= start: for a     *)
(* match whose group span is empty, replaceGroupWith puts no token and     *)
(* copies the text around it: the result is the text with the tokens       *)
(* spliced over the non-empty spans alone.  Stated of the redactions that  *)
(* return.                                                                 *)
NonEmptySpans(spans) == SelectSeq(spans, LAMBDA sp : sp[1] < sp[2])

SplicedNonEmpty(text, re, p) ==
  Splice(text, NonEmptySpans(RedactedSpans(MatchesFrom(re, text, 0), p.group)), Hidden)

DiscardsEmpty(r, text, re, p) == r.hang \/ r.text = SplicedNonEmpty(text, re, p)

C11_RedactorDiscardsEmpty ==
  \A k \in 1..Len(userPatterns) :
    (userPatterns[k].group.kind # "none" /\ Compiles(userPatterns[k]))
      => DiscardsEmpty(RedactPattern(docText["d1"], userPatterns[k], dSupported),
                       docText["d1"], buildRegex(userPatterns[k].regex, dSupported),
                       userPatterns[k])

(* C12: for every match and every group selector, maskSpanFromMatch        *)
(* resolves the same span with index metadata as without, unless the       *)
(* captured text, not empty, also occurs earlier in the text of the match. *)
WithMetadata(m) == [m EXCEPT !.hasIndices = TRUE]

WithoutMetadata(m) == [m EXCEPT !.hasIndices = FALSE]

IndicesOf(m, group) ==
  IF group.kind = "num" THEN IndicesElem(m, group.num) ELSE IndicesNamed(m, group.name)

OccursEarlier(m, t, tup) ==
  /\ t.def /\ t.text # << >> /\ tup.def
  /\ m.index + IndexOf(m.full, t.text) < tup.s

SameSpanEitherWay(m, group) ==
  maskSpanFromMatch(WithMetadata(m), group) = maskSpanFromMatch(WithoutMetadata(m), group)

EmptyCapture(m, tup) == tup.def /\ tup.s = tup.e /\ Len(m.full) > 0

OwnSpan(m, p) ==
  MaskSpan(maskSpanFromMatch(m, p.group)[1], maskSpanFromMatch(m, p.group)[2], p.name)

OwnSpansOf(ms, p, doc) ==
  SelectSeq([k \in 1..Len(ms) |-> OwnSpan(ms[k], p)],
            LAMBDA sp : sp.start < sp.end
                          /\ ~isTemporarilyRevealed(tempReveals, doc, now, sp.start, sp.end))

OwnSpans(p, doc) ==
  IF ~Compiles(p) THEN << >>
  ELSE OwnSpansOf(MatchesFrom(buildRegex(p.regex, dSupported), docText[doc], 0), p, doc)

RECURSIVE ConcatOwn(_, _, _)
ConcatOwn(pats, n, doc) ==
  IF n = 0 THEN << >> ELSE ConcatOwn(pats, n - 1, doc) \o OwnSpans(pats[n], doc)

ConcatOfOwn(r, pats, doc) == r.hang \/ r.decorations = ConcatOwn(pats, Len(pats), doc)

ScanInOrder(pats, doc) ==
  ConcatOfOwn(ScanFrom(docText[doc], pats, 1, tempReveals, doc, now, dSupported, << >>),
              pats, doc)

C13_ScanConcatenates ==
  /\ \A presets \in BOOLEAN : ScanInOrder(getPatterns(userPatterns, presets), "d1")
  /\ ~hung => decorations["d1"] = ConcatOwn(CurrentPatterns, Len(CurrentPatterns), "d1")

(* Two patterns matched the same substring: two spans.                     *)
C13_Witness ==
  /\ userPatterns = <<PWord, PIgnoreCase>>
  /\ docText["d1"] = <<"a">>
  /\ decorations["d1"] = <<MaskSpan(0, 1, "word"), MaskSpan(0, 1, "ignorecase")>>

(* C16: resolved without usable index metadata, the span of a group lies   *)
(* inside the match; it starts at the first occurrence of the captured     *)
(* text in the text of the match; and it is the span of the whole match    *)
(* when the selector names no captured text.                               *)
InsideMatch(sp, m) == m.index <= sp[1] /\ sp[1] <= sp[2] /\ sp[2] <= m.index + Len(m.full)

AtFirstOccurrence(sp, m, t) ==
  sp = <<m.index + IndexOf(m.full, t.text), m.index + IndexOf(m.full, t.text) + Len(t.text)>>

FallbackResolved(sp, m, t) ==
  /\ InsideMatch(sp, m)
  /\ (t.def /\ t.text # << >>) => AtFirstOccurrence(sp, m, t)
  /\ ~t.def => sp = FullSpan(m)

C16_FallbackInsideMatch ==
  \A m \in CurrentMatches : \A group \in Selectors :
    /\ FallbackResolved(maskSpanFromMatch(WithoutMetadata(m), group), m,
                        SelectedCapture(m, group))
    /\ ~IndicesOf(m, group).def
         => FallbackResolved(maskSpanFromMatch(WithMetadata(m), group), m,
                             SelectedCapture(m, group))

(* Without index metadata, "aaa" matched by a and a group around a+ : the  *)
(* group's text "aa" is found at the start of the match.                   *)
C16_Witness ==
  /\ ~dSupported
  /\ userPatterns = <<PAmbiguous>>
  /\ docText["d1"] = <<"a", "a", "a">>
  /\ decorations["d1"] = <<MaskSpan(0, 2, "ambiguous")>>

(* C14: every reveal entry is created with expires = now + max(500, ms),   *)
(* for a duration of zero and a negative one too: the entry expires at     *)
(* least 500 ms after its creation, and the timer is set with the same     *)
(* delay.                                                                  *)
ClampedMs(ms) == IF ms > 500 THEN ms ELSE 500

(* The durations the property speaks of: a negative one comes to the same  *)
(* step as zero.                                                           *)
AnyDurations == Durations \cup {-100}

TimerOf(doc, r, due) == [doc |-> doc, start |-> r[1], end |-> r[2], due |-> due]

C14_ExpiryClamped ==
  [][\A doc \in Docs : \A r \in SessionRanges \cup {<<0, 1>>} : \A ms \in AnyDurations :
       RevealAtRange(doc, r[1], r[2], ms)
         => /\ tempReveals'[doc] # << >>
            /\ tempReveals'[doc][Len(tempReveals'[doc])]
                 = RevealEntry(r[1], r[2], now + ClampedMs(ms))
            /\ tempReveals'[doc][Len(tempReveals'[doc])].expires >= now + 500
            /\ CopiesIn(TimerOf(doc, r, now + ClampedMs(ms)), timers')
                 = CopiesIn(TimerOf(doc, r, now + ClampedMs(ms)), timers) + 1]_vars

(* Two reveals asked for at time 0, one for a duration under the minimum   *)
(* and one for 750 ms: the entries expire at 500 and 750, as their timers. *)
C14_Witness ==
  /\ now = 0
  /\ tempReveals["d1"] = <<RevealEntry(0, 1, 500), RevealEntry(1, 3, 750)>>
  /\ timers = SetToBag({TimerOf("d1", <<0, 1>>, 500), TimerOf("d1", <<1, 3>>, 750)})

(* C15: parseRegex, when the trimmed source starts with "(?" and the text  *)
(* up to the first ")" is letters only and not empty, strips that group    *)
(* and returns the flags g, d and each of i, m, s, u, y that occurs in the *)
(* group, every flag once; otherwise it returns the trimmed source as it   *)
(* is and the flags gd.                                                    *)
FirstClose(t) == FirstOf({k \in 1..Len(t) : t[k] = ")"})

HasFlagGroup(t) ==
  /\ Len(t) >= 2 /\ t[1] = "(" /\ t[2] = "?"
  /\ FirstClose(t) >= 4
  /\ \A k \in 3..(FirstClose(t) - 1) : t[k] \in Letters

FlagsExactly(flags, group) ==
  /\ Len(flags) >= 2 /\ flags[1] = "g" /\ flags[2] = "d"
  /\ Range(flags) = {"g", "d"} \cup (Range(group) \cap {"i", "m", "s", "u", "y"})
  /\ Cardinality(Range(flags)) = Len(flags)

ParsedAsClaimed(r, t) ==
  IF HasFlagGroup(t)
  THEN /\ r.source = SubSeq(t, FirstClose(t) + 1, Len(t))
       /\ FlagsExactly(r.flags, SubSeq(t, 3, FirstClose(t) - 1))
  ELSE r.source = t /\ r.flags = <<"g", "d">>

C15_InlineFlags == parsed # NotParsed => ParsedAsClaimed(parsed, Trim(regexInput))

(* "(?yi)" parsed: the group is stripped, the flags are g, d, y, i.        *)
C15_Witness ==
  /\ regexInput = <<"(", "?", "y", "i", ")">>
  /\ parsed = [source |-> << >>, flags |-> <<"g", "d", "y", "i">>]

(* C17: whenever Streamer Mode is disabled and no handler is waiting,      *)
(* after whatever activations, toggles and changes of the title mask       *)
(* setting, window.title is what the user had before the extension masked  *)
(* it.                                                                     *)
C17_TitleRestored ==
  (~enabled /\ pending = EmptyBag)
    => ConfiguredTitle(windowTitle) = ConfiguredTitle(userTitle)

(* C18: whenever no toggle is in flight, the decoration type is non-null   *)
(* only if enabled is true, and with enabled false every visible editor    *)
(* has an empty decoration set; and no step taken while enabled is false   *)
(* sets decorations.                                                       *)
ToggleInFlight == \E c \in BagToSet(pending) : c.from = "toggle"

TypeOnlyIfEnabled == ~ToggleInFlight => (decorationType => enabled)

ClearedWhenDisabled ==
  (~ToggleInFlight /\ ~enabled) => \A d \in visibleEditors : decorations[d] = << >>

C18_ToggleConsistent ==
  /\ []TypeOnlyIfEnabled
  /\ []ClearedWhenDisabled
  /\ [][(~enabled /\ ~enabled')
          => \A d \in Docs : decorations'[d] = decorations[d] \/ decorations'[d] = << >>]_vars

(* Streamer Mode, enabled at activation, has been switched off and the     *)
(* toggle has completed, with a reveal's timer still to come: no           *)
(* decoration type, no decorations.                                        *)
C18_Witness ==
  /\ ~enabled /\ pending = EmptyBag
  /\ timers # EmptyBag /\ activeEditor = "d1"
  /\ ~decorationType
  /\ \A d \in Docs : decorations[d] = << >>

====
